---- MODULE Spec2Model ----
(***************************************************************************)
(* A model of voutasaurus/oauth: the AEAD wrapper (key.go), the session    *)
(* cookie codec (setCookie / Cookie) and the three HTTP entry points       *)
(* (HandleLogin, HandleRedirect, HandleLogoff).                            *)
(*                                                                         *)
(* Bytes are naturals 0..255 and byte strings are sequences of them.       *)
(* secretbox and base64 are modelled symbolically: a sealed box remembers  *)
(* the key, the nonce and the plaintext it was sealed with and whether it  *)
(* is still intact, and opens only under that key and nonce; a base64      *)
(* string is either the encoding of some bytes or malformed.               *)
(* crypto/rand.Read is taken never to fail (it does not on the platforms   *)
(* Go supports), so EncryptBytes always returns a token.                   *)
(***************************************************************************)
EXTENDS Naturals, Integers, Sequences, FiniteSets, TLC

VARIABLES
    handlers,   \* the Handler values of the deployment (read-only configuration)
    now,        \* the wall clock, in ticks of 1/Resolution second
    jar,        \* jar[b]: the session cookie browser b holds, or NoCookie
    issued,     \* every token an EncryptBytes call of a handler has produced, with who got it
    pending,    \* the HandleRedirect call that waits for a collaborator, if any
    last        \* the last call: its request, its response and the calls it made

vars == <<handlers, now, jar, issued, pending, last>>

----------------------------------------------------------------------------
\* Bounds of the model

\* ticks per second of the model's clock (time.Now has nanoseconds)
Resolution == 3
\* longest Domain string drawn for the codec specification
MaxDomainLen == 2
\* longest identity passed to setCookie in the codec specification
MaxIdLen == 2
\* number of EncryptBytes calls in one run
MaxSeals == 2
\* the Unix time, in seconds, at which a run starts
Epoch == 300
\* longest service name and longest provider subject drawn for the identity
\* specification
MaxNameLen == 2

----------------------------------------------------------------------------
\* Bytes

Space == 32
Underscore == 95
NonceLen == 24
\* secretbox.Overhead: the Poly1305 tag
Overhead == 16

\* '/'
Slash == 47

RECURSIVE SeqsUpTo(_, _)
SeqsUpTo(S, n) ==
    IF n = 0 THEN {<<>>}
    ELSE LET shorter == SeqsUpTo(S, n - 1)
         IN  shorter \cup {Append(s, x) : s \in shorter, x \in S}

\* the n low bytes of v, most significant first
RECURSIVE BigEndian(_, _)
BigEndian(v, n) ==
    IF n = 0 THEN <<>> ELSE Append(BigEndian(v \div 256, n - 1), v % 256)

\* binary.BigEndian.PutUint64(tb, v): the 8 bytes of v, most significant first
PutUint64(v) == BigEndian(v, 8)

RECURSIVE SumBE(_, _)
SumBE(b, n) == IF n = 0 THEN 0 ELSE SumBE(b, n - 1) * 256 + b[n]

\* binary.BigEndian.Uint64(b): the first 8 bytes of b read most significant first
Uint64(b) == SumBE(b, 8)

\* bytes.Split(b, sep) for a one-byte separator: the pieces between the
\* separators, one more piece than there are separators
RECURSIVE Split(_, _)
Split(b, sep) ==
    IF \A i \in 1..Len(b) : b[i] # sep THEN <<b>>
    ELSE LET i == CHOOSE i \in 1..Len(b) :
                      b[i] = sep /\ \A j \in 1..(i - 1) : b[j] # sep
         IN  <<SubSeq(b, 1, i - 1)>> \o Split(SubSeq(b, i + 1, Len(b)), sep)

\* bytes.Join(parts, sep)
RECURSIVE Join(_, _)
Join(parts, sep) ==
    IF Len(parts) = 0 THEN <<>>
    ELSE IF Len(parts) = 1 THEN parts[1]
    ELSE parts[1] \o <<sep>> \o Join(Tail(parts), sep)

\* strings.Index(s, c) for a one-byte c, counted from 1: 0 when c is not in s
Index(s, c) ==
    IF \A i \in 1..Len(s) : s[i] # c THEN 0
    ELSE CHOOSE i \in 1..Len(s) : s[i] = c /\ \A j \in 1..(i - 1) : s[j] # c

\* strings.LastIndex(s, c) for a one-byte c, counted from 1
LastIndex(s, c) ==
    IF \A i \in 1..Len(s) : s[i] # c THEN 0
    ELSE CHOOSE i \in 1..Len(s) : s[i] = c /\ \A j \in (i + 1)..Len(s) : s[j] # c

HasPrefix(s, pre) == Len(s) >= Len(pre) /\ SubSeq(s, 1, Len(pre)) = pre

HasSuffix(s, suf) == Len(s) >= Len(suf) /\ SubSeq(s, Len(s) - Len(suf) + 1, Len(s)) = suf

\* the part of s before the first c (all of s when c is not in it)
Before(s, c) == IF Index(s, c) = 0 THEN s ELSE SubSeq(s, 1, Index(s, c) - 1)

\* the part of s from the first c on, c included (empty when c is not in it)
From(s, c) == IF Index(s, c) = 0 THEN <<>> ELSE SubSeq(s, Index(s, c), Len(s))

----------------------------------------------------------------------------
\* key.go: the AEAD wrapper

\* A byte string handed to DecryptBytes is either shorter than a nonce, or a
\* nonce followed by a box.
ShortBytes(n) == [kind |-> "short", len |-> n]

\* secretbox.Seal(nonce[:], b, &nonce, key): the nonce followed by the box
Seal(nonce, b, key) ==
    [kind |-> "box", nonce |-> nonce, sealKey |-> key, sealNonce |-> nonce,
     pt |-> b, intact |-> TRUE]

\* secretbox.Open(nil, box, &nonce, key)
Open(tok, key) ==
    IF tok.intact /\ tok.sealKey = key /\ tok.sealNonce = tok.nonce
    THEN [ok |-> TRUE, out |-> tok.pt]
    ELSE [ok |-> FALSE, out |-> <<>>]

ByteLen(tok) ==
    IF tok.kind = "short" THEN tok.len ELSE NonceLen + Overhead + Len(tok.pt)

EncryptBytes(key, b, nonce) == Seal(nonce, b, key)

DecryptBytesNoTagCheck(key, b) ==
    IF b.kind = "short" THEN [err |-> "ErrInvalidCipher", out |-> <<>>]
    ELSE IF b.sealKey # key THEN [err |-> "ErrInvalidCipher", out |-> <<>>]
    ELSE [err |-> "nil", out |-> b.pt]

DecryptBytesNoLengthCheck(key, b) ==
    IF b.kind = "short" THEN [err |-> "nil", out |-> <<>>]
    ELSE LET r == Open(b, key)
         IN  IF ~r.ok THEN [err |-> "ErrInvalidCipher", out |-> <<>>]
             ELSE [err |-> "nil", out |-> r.out]

DecryptBytesOpenFailureIgnored(key, b) ==
    IF b.kind = "short" THEN [err |-> "ErrInvalidCipher", out |-> <<>>]
    ELSE [err |-> "nil", out |-> Open(b, key).out]

DecryptBytes(key, b) ==
    IF ByteLen(b) < NonceLen THEN [err |-> "ErrInvalidCipher", out |-> <<>>]
    ELSE LET r == Open(b, key)
         IN  IF ~r.ok THEN [err |-> "ErrInvalidCipher", out |-> <<>>]
             ELSE [err |-> "nil", out |-> r.out]

----------------------------------------------------------------------------
\* encoding/base64

\* base64.URLEncoding.EncodeToString(b)
EncodeToString(b) == [kind |-> "b64", raw |-> b]

\* a string that is not base64url
Malformed == [kind |-> "malformed", raw |-> ShortBytes(0)]

\* the empty string: it decodes to no bytes
EmptyString == EncodeToString(ShortBytes(0))

\* base64.URLEncoding.DecodeString(s)
DecodeString(s) ==
    IF s.kind = "b64" THEN [err |-> "nil", out |-> s.raw]
    ELSE [err |-> "CorruptInputError", out |-> ShortBytes(0)]

----------------------------------------------------------------------------
\* Time

Second == Resolution
Hour == 3600 * Second
Day == 24 * Hour

\* now.Unix(): whole seconds since the epoch
Unix(t) == t \div Second

\* time.Unix(sec, 0)
TimeUnix(sec) == sec * Second

\* time.Since(t) evaluated when the clock shows `at`
Since(t, at) == at - t

----------------------------------------------------------------------------
\* net/http: the response writer, cookies and requests

NoLocation == [kind |-> "none", url |-> <<>>, state |-> EmptyString]
ToURL(u) == [kind |-> "url", url |-> u, state |-> EmptyString]

\* oauth2.Config.AuthCodeURL(state): the provider's authorization URL, which
\* carries the state parameter
AuthCodeURL(state) == [kind |-> "provider", url |-> <<>>, state |-> state]

\* a response body is a sequence of chunks: literal text, or the text of a
\* URL (strings cannot be concatenated, so "a" + b + "c" is three chunks)
Text(t) == [text |-> t, link |-> NoLocation]
Link(loc) == [text |-> "", link |-> loc]

\* a fresh http.ResponseWriter: nothing written. status, location and
\* setCookies are what is sent; contentType is the Content-Type entry of the
\* header map
NewWriter ==
    [status |-> 0, body |-> <<>>, location |-> NoLocation, setCookies |-> <<>>,
     contentType |-> ""]

\* http.Error(w, msg, code): sets the plain-text content type, writes the
\* status (a second WriteHeader changes nothing) and prints msg and a newline
HttpError(w, msg, code) ==
    [w EXCEPT !.contentType = "text/plain; charset=utf-8",
              !.status = IF @ = 0 THEN code ELSE @,
              !.body = @ \o [i \in 1..Len(msg) |-> Text(msg[i])] \o <<Text("\n")>>]

\* ASCII classes used by net/url
Letters == (65..90) \cup (97..122)
Digits == 48..57
HexDigits == Digits \cup (65..70) \cup (97..102)

HexVal(c) == IF c \in Digits THEN c - 48 ELSE IF c \in 65..70 THEN c - 55 ELSE c - 87

\* the lower-case hex digit of d
HexChar(d) == IF d < 10 THEN 48 + d ELSE 87 + d

\* a '%' that is not followed by two hex digits
BadEscape(u) ==
    \E i \in 1..Len(u) :
        u[i] = 37 /\ (i + 2 > Len(u) \/ u[i + 1] \notin HexDigits \/ u[i + 2] \notin HexDigits)

\* url.PathUnescape on a string without bad escapes
RECURSIVE Unescape(_)
Unescape(u) ==
    IF u = <<>> THEN <<>>
    ELSE IF u[1] = 37 /\ Len(u) >= 3
         THEN <<16 * HexVal(u[2]) + HexVal(u[3])>> \o Unescape(SubSeq(u, 4, Len(u)))
         ELSE <<u[1]>> \o Unescape(Tail(u))

\* net/url getScheme: letters, then letters, digits, '+', '-', '.', up to a ':'
SchemeEnd(u) ==
    IF \A i \in 1..Len(u) : u[i] \in Letters \cup Digits \cup {43, 45, 46} THEN 0
    ELSE CHOOSE i \in 1..Len(u) :
             /\ u[i] \notin Letters \cup Digits \cup {43, 45, 46}
             /\ \A j \in 1..(i - 1) : u[j] \in Letters \cup Digits \cup {43, 45, 46}

HasScheme(u) ==
    /\ u # <<>>
    /\ u[1] \in Letters
    /\ SchemeEnd(u) # 0
    /\ u[SchemeEnd(u)] = 58

\* r.URL.Path: the path the server parsed from the request line. It is a
\* field of the request beside r.URL.String(), from which it cannot be told:
\* "//h:1/x" is the URL of "GET //h:1/x" (path "//h:1/x") and of
\* "CONNECT h:1/x" (host "h:1", path "/x")
RequestPath(r) == r.path

\* the authority of a scheme-less reference: what follows a leading "//"
\* (but not "///") up to the next '/'
HasAuthority(u) == HasPrefix(u, <<Slash, Slash>>) /\ ~HasPrefix(u, <<Slash, Slash, Slash>>)

Authority(u) == Before(SubSeq(u, 3, Len(u)), Slash)

\* the bytes net/url accepts in the userinfo of an authority
UserinfoBytes ==
    Letters \cup Digits
        \cup {45, 46, 95, 58, 126, 33, 36, 38, 39, 40, 41, 42, 43, 44, 59, 61, 37, 64}

\* the host part of the authority of a reference without scheme, as it is
\* written: what follows the last '@'
RawHost(u) ==
    LET auth == Authority(Before(Before(u, 35), 63))
    IN  IF HasAuthority(u) THEN SubSeq(auth, LastIndex(auth, 64) + 1, Len(auth)) ELSE <<>>

\* the bytes net/url lets stand unescaped in a host
HostBytes ==
    Letters \cup Digits
        \cup {33, 36, 38, 39, 40, 41, 42, 43, 44, 59, 61, 58, 91, 93, 60, 62, 34, 45, 95, 46, 126}

\* net/url validOptionalPort: nothing, or ':' and digits
validOptionalPort(port) ==
    port = <<>> \/ (port[1] = 58 /\ \A i \in 2..Len(port) : port[i] \in Digits)

\* the byte the escape at s[i] stands for
Escaped(s, i) == 16 * HexVal(s[i + 1]) + HexVal(s[i + 2])

\* net/url unescape returns an error on s, a piece of a host (zone = FALSE) or
\* the zone of an IPv6 literal (zone = TRUE): a malformed escape, an ASCII
\* byte that a host cannot hold, or an escape other than "%25" that in a
\* host stands for an ASCII byte and in a zone for neither a space nor a
\* byte a host can hold
HostEscapeError(s, zone) ==
    \/ BadEscape(s)
    \/ \E i \in 1..Len(s) : s[i] # 37 /\ s[i] < 128 /\ s[i] \notin HostBytes
    \/ \E i \in 1..(Len(s) - 2) :
           /\ s[i] = 37
           /\ SubSeq(s, i, i + 2) # <<37, 50, 53>>
           /\ IF zone THEN Escaped(s, i) # Space /\ Escaped(s, i) \notin HostBytes
                      ELSE Escaped(s, i) < 128

\* where "%25" first stands in s, counted from 1: 0 when it does not
ZoneIndex(s) ==
    IF \A i \in 1..(Len(s) - 2) : SubSeq(s, i, i + 2) # <<37, 50, 53>> THEN 0
    ELSE CHOOSE i \in 1..(Len(s) - 2) :
             /\ SubSeq(s, i, i + 2) = <<37, 50, 53>>
             /\ \A j \in 1..(i - 1) : SubSeq(s, j, j + 2) # <<37, 50, 53>>

\* net/url parseHost returns an error on a host in brackets that ends at
\* close, the place of its last ']': what is in the brackets is taken as it
\* is, a zone in it starts at the first "%25"
BracketHostFails(host, close) ==
    \/ close = 0
    \/ ~validOptionalPort(SubSeq(host, close + 1, Len(host)))
    \/ IF ZoneIndex(SubSeq(host, 1, close - 1)) = 0
       THEN HostEscapeError(host, FALSE)
       ELSE \/ HostEscapeError(SubSeq(host, 1, ZoneIndex(SubSeq(host, 1, close - 1)) - 1), FALSE)
            \/ HostEscapeError(SubSeq(host, ZoneIndex(SubSeq(host, 1, close - 1)), close - 1), TRUE)
            \/ HostEscapeError(SubSeq(host, close, Len(host)), FALSE)

\* net/url parseHost returns an error
HostFails(host) ==
    IF HasPrefix(host, <<91>>) THEN BracketHostFails(host, LastIndex(host, 93))
    ELSE \/ LastIndex(host, 58) # 0
            /\ ~validOptionalPort(SubSeq(host, LastIndex(host, 58), Len(host)))
         \/ HostEscapeError(host, FALSE)

\* u.Host of url.Parse(u), for a reference without scheme: the host part of
\* the authority with its escapes decoded; none when parseHost fails
Host(u) == IF HostFails(RawHost(u)) THEN <<>> ELSE Unescape(RawHost(u))

\* url.Parse fails on u, a reference without scheme: a control byte, a ':'
\* at the start or in the first element of a relative path, a byte that a
\* userinfo cannot hold, a host that parseHost refuses, a malformed %-escape
ParseFails(u) ==
    LET main == Before(u, 35)
        frag == IF Index(u, 35) = 0 THEN <<>> ELSE SubSeq(u, Index(u, 35) + 1, Len(u))
        rest == Before(main, 63)
        auth == Authority(rest)
        userinfo == SubSeq(auth, 1, LastIndex(auth, 64) - 1)
        path == IF HasAuthority(rest) THEN From(SubSeq(rest, 3, Len(rest)), Slash) ELSE rest
    IN  \/ \E i \in 1..Len(main) : main[i] < 32 \/ main[i] = 127
        \/ main # <<>> /\ main[1] = 58
        \/ ~HasPrefix(rest, <<Slash>>) /\ Index(Before(rest, Slash), 58) # 0
        \/ HasAuthority(rest) /\ \E i \in 1..Len(userinfo) : userinfo[i] \notin UserinfoBytes
        \/ HasAuthority(rest) /\ BadEscape(userinfo)
        \/ HostFails(RawHost(u))
        \/ BadEscape(path)
        \/ BadEscape(frag)

\* http.Redirect leaves the target as it is when url.Parse fails on it or
\* finds a scheme or a host in it
Untouched(u) == HasScheme(Before(u, 35)) \/ Host(u) # <<>> \/ ParseFails(u)

\* path.Clean: the elements of p without "", "." and every "x/..", a ".."
\* at the root dropped, one at the start of a relative path kept
RECURSIVE CleanElements(_, _, _)
CleanElements(elems, kept, rooted) ==
    IF elems = <<>> THEN kept
    ELSE LET e == Head(elems)
             next == IF e = <<>> \/ e = <<46>> THEN kept
                     ELSE IF e = <<46, 46>>
                          THEN IF kept # <<>> /\ kept[Len(kept)] # <<46, 46>>
                               THEN SubSeq(kept, 1, Len(kept) - 1)
                               ELSE IF rooted THEN kept ELSE Append(kept, e)
                     ELSE Append(kept, e)
         IN  CleanElements(Tail(elems), next, rooted)

Clean(p) ==
    IF p = <<>> THEN <<46>>
    ELSE LET rooted == p[1] = Slash
             out == (IF rooted THEN <<Slash>> ELSE <<>>)
                        \o Join(CleanElements(Split(p, Slash), <<>>, rooted), Slash)
         IN  IF out = <<>> THEN <<46>> ELSE out

\* the target http.Redirect sends for url: a reference without scheme and
\* host is made absolute against the directory of the request path and
\* cleaned, its trailing slash and its query kept
RedirectTarget(r, url) ==
    IF Untouched(url) THEN url
    ELSE LET oldpath == IF RequestPath(r) = <<>> THEN <<Slash>> ELSE RequestPath(r)
             olddir == SubSeq(oldpath, 1, LastIndex(oldpath, Slash))
             abs == IF url = <<>> \/ url[1] # Slash THEN olddir \o url ELSE url
             p == Before(abs, 63)
             c == Clean(p)
             t == IF HasSuffix(p, <<Slash>>) /\ ~HasSuffix(c, <<Slash>>)
                  THEN Append(c, Slash) ELSE c
         IN  t \o From(abs, 63)

\* hexEscapeNonASCII: every byte above 127 as '%' and two hex digits
RECURSIVE HexEscapeNonASCII(_)
HexEscapeNonASCII(u) ==
    IF u = <<>> THEN <<>>
    ELSE (IF u[1] >= 128 THEN <<37, HexChar(u[1] \div 16), HexChar(u[1] % 16)>>
          ELSE <<u[1]>>) \o HexEscapeNonASCII(Tail(u))

\* htmlEscape: & < > " ' as &amp; &lt; &gt; &#34; &#39;
RECURSIVE HtmlEscape(_)
HtmlEscape(u) ==
    IF u = <<>> THEN <<>>
    ELSE (IF u[1] = 38 THEN <<38, 97, 109, 112, 59>>
          ELSE IF u[1] = 60 THEN <<38, 108, 116, 59>>
          ELSE IF u[1] = 62 THEN <<38, 103, 116, 59>>
          ELSE IF u[1] = 34 THEN <<38, 35, 51, 52, 59>>
          ELSE IF u[1] = 39 THEN <<38, 35, 51, 57, 59>>
          ELSE <<u[1]>>) \o HtmlEscape(Tail(u))

\* http.StatusText for the redirect codes
StatusText(code) ==
    IF code = 301 THEN "Moved Permanently"
    ELSE IF code = 302 THEN "Found"
    ELSE IF code = 303 THEN "See Other"
    ELSE IF code = 307 THEN "Temporary Redirect"
    ELSE IF code = 308 THEN "Permanent Redirect"
    ELSE ""

\* http.Redirect(w, r, url, code). The provider's authorization URL is
\* absolute and goes out as it is. Headers set after the status was written
\* are not sent; unless a Content-Type was set before, a GET gets a short
\* HTML body.
HttpRedirect(w, r, loc, code) ==
    LET target == IF loc.kind = "url" THEN RedirectTarget(r, loc.url) ELSE loc.url
        sent == IF loc.kind = "url" THEN ToURL(HexEscapeNonASCII(target)) ELSE loc
        href == IF loc.kind = "url" THEN ToURL(HtmlEscape(target)) ELSE loc
        hadCT == w.contentType # ""
        html == <<Text("<a href=\""), Link(href), Text("\">"), Text(StatusText(code)),
                  Text("</a>.\n"), Text("\n")>>
    IN  [w EXCEPT !.contentType = IF ~hadCT /\ r.method \in {"GET", "HEAD"}
                                  THEN "text/html; charset=utf-8" ELSE @,
                  !.status = IF @ = 0 THEN code ELSE @,
                  !.location = IF w.status = 0 THEN sent ELSE @,
                  !.body = IF ~hadCT /\ r.method = "GET" THEN @ \o html ELSE @]

\* net/http isCookieDomainName, after an optional leading dot: letters,
\* digits, '-' and '.', no '-' after a '.', no '.' after a '.' or a '-', no
\* empty label and none longer than 63, no '-' at the end, a letter somewhere
RECURSIVE DomainNameFrom(_, _, _, _)
DomainNameFrom(s, prev, ok, partlen) ==
    IF s = <<>> THEN prev # 45 /\ partlen <= 63 /\ ok
    ELSE LET c == Head(s)
         IN  IF c \in Letters THEN DomainNameFrom(Tail(s), c, TRUE, partlen + 1)
             ELSE IF c \in Digits THEN DomainNameFrom(Tail(s), c, ok, partlen + 1)
             ELSE IF c = 45
                  THEN prev # 46 /\ DomainNameFrom(Tail(s), c, ok, partlen + 1)
             ELSE IF c = 46
                  THEN /\ prev \notin {45, 46}
                       /\ partlen <= 63 /\ partlen # 0
                       /\ DomainNameFrom(Tail(s), c, ok, 0)
             ELSE FALSE

isCookieDomainName(s) ==
    /\ Len(s) >= 1 /\ Len(s) <= 255
    /\ DomainNameFrom(IF s[1] = 46 THEN Tail(s) ELSE s, 46, FALSE, 0)

\* the number a string of decimal digits denotes
RECURSIVE Decimal(_)
Decimal(f) == IF f = <<>> THEN 0 ELSE 10 * Decimal(SubSeq(f, 1, Len(f) - 1)) + (f[Len(f)] - 48)

\* net.ParseIP on a string without ':': four decimal fields of at most 255,
\* none with a leading zero
ParseIPv4(s) ==
    LET fs == Split(s, 46)
    IN  /\ Len(fs) = 4
        /\ \A k \in 1..4 :
               /\ Len(fs[k]) \in 1..3
               /\ \A i \in 1..Len(fs[k]) : fs[k][i] \in Digits
               /\ Len(fs[k]) > 1 => fs[k][1] # 48
               /\ Decimal(fs[k]) <= 255

validCookieDomain(v) == isCookieDomainName(v) \/ ParseIPv4(v)

\* Cookie.String(): the cookie as the Set-Cookie header carries it. A Domain
\* that is not valid is left out, a valid one loses its leading dot; Expires
\* is written in http.TimeFormat, in whole seconds.
CookieString(c) ==
    [c EXCEPT !.Domain = IF @ # <<>> /\ validCookieDomain(@)
                         THEN (IF @[1] = 46 THEN Tail(@) ELSE @)
                         ELSE <<>>,
              !.Expires = TimeUnix(Unix(@))]

\* net/http isTokenTable: the bytes of an HTTP token
TokenBytes ==
    Letters \cup Digits \cup {33, 35, 36, 37, 38, 39, 42, 43, 45, 46, 94, 95, 96, 124, 126}

\* net/http isCookieNameValid: not empty, and token bytes only
isCookieNameValid(raw) ==
    raw # <<>> /\ \A i \in 1..Len(raw) : raw[i] \in TokenBytes

\* http.SetCookie(w, c): a cookie whose name is not valid has no string form
\* and adds no Set-Cookie header; nor is a header sent that is added after
\* the status was written
HttpSetCookie(w, c) ==
    IF ~isCookieNameValid(c.Name) \/ w.status # 0 THEN w
    ELSE [w EXCEPT !.setCookies = Append(@, CookieString(c))]

NoCookie == [kind |-> "none", Name |-> <<>>, Value |-> EmptyString]
ReqCookie(name, value) == [kind |-> "cookie", Name |-> name, Value |-> value]

\* r.Cookie(name): the request's cookie of that name, or http.ErrNoCookie.
\* The Cookie header is read leaving out every cookie whose name is not
\* valid.
RequestCookie(r, name) ==
    IF r.cookie.kind = "cookie" /\ isCookieNameValid(r.cookie.Name) /\ r.cookie.Name = name
    THEN [err |-> "nil", c |-> r.cookie]
    ELSE [err |-> "ErrNoCookie", c |-> NoCookie]

----------------------------------------------------------------------------
\* The session cookie codec

\* "session" unless a CookieName is configured
cookieName(h) ==
    IF h.CookieName = <<>> THEN <<115, 101, 115, 115, 105, 111, 110>> ELSE h.CookieName

\* the plaintext setCookie seals: timestamp, domain, delimiter, payload
CookiePayload(h, in, at) == PutUint64(Unix(at)) \o (h.Domain \o <<Space>>) \o in

\* setCookie(w, in) at time `at`, with the nonce rand.Read drew
setCookie(h, w, in, at, nonce) ==
    LET out == EncryptBytes(h.CookieKey, CookiePayload(h, in, at), nonce)
    IN  HttpSetCookie(w, [Name |-> cookieName(h),
                          Value |-> EncodeToString(out),
                          Expires |-> at + Day,
                          Path |-> "/",
                          Domain |-> h.Domain,
                          Secure |-> TRUE,
                          HttpOnly |-> TRUE])

\* the expiry test of Cookie
ExpiredAfterHour(ts, at) == Since(TimeUnix(ts), at) > Hour

ExpiredNever(ts, at) == FALSE

ExpiredAtOrAfter(ts, at) == Since(TimeUnix(ts), at) >= Day

Expired(ts, at) == Since(TimeUnix(ts), at) > Day

\* the domain test of Cookie on the split payload
DomainAny(bb, h) == TRUE

DomainOK(bb, h) == bb[1] = h.Domain

\* the identity Cookie returns from the split payload
IdentityFirstSegment(bb) == IF Len(bb) > 1 THEN bb[2] ELSE <<>>

Identity(bb) == Join(Tail(bb), Space)

Failed(e) == [err |-> e, b |-> <<>>]

\* Cookie(r) at time `at`
Cookie(h, r, at) ==
    LET c == RequestCookie(r, cookieName(h)) IN
    IF c.err # "nil" THEN Failed(c.err) ELSE
    LET in == DecodeString(c.c.Value) IN
    IF in.err # "nil" THEN Failed(in.err) ELSE
    LET d == DecryptBytes(h.CookieKey, in.out) IN
    IF d.err # "nil" THEN Failed(d.err) ELSE
    IF Len(d.out) < 8 THEN Failed("panic") ELSE
    IF Expired(Uint64(d.out), at) THEN Failed("ErrCookieExpired") ELSE
    LET bb == Split(SubSeq(d.out, 9, Len(d.out)), Space) IN
    IF ~DomainOK(bb, h) THEN Failed("ErrCookieDomain")
    ELSE [err |-> "nil", b |-> Identity(bb)]

----------------------------------------------------------------------------
\* The collaborators of HandleRedirect. What the provider, the ACL and the
\* profile writer answer is an input of the call: env.

NotCalled == [do |-> "-", status |-> 0, json |-> "-", sub |-> <<>>]

\* oauth2.Config.Exchange(ctx, code)
Exchange(env) ==
    IF env.exchange = "ok" THEN [err |-> "nil", tok |-> "token"]
    ELSE [err |-> "exchange error", tok |-> "-"]

\* code := res.StatusCode; code < 200 || code > 299 is refused
StatusOK(code) == ~(code < 200 \/ code > 299)

\* GetUserInfo(tok), given the reply of the userinfo endpoint
GetUserInfoAnyStatus(h, tok, reply) ==
    IF reply.do # "ok" THEN [err |-> "transport error", Sub |-> <<>>]
    ELSE IF reply.json # "ok" THEN [err |-> "json error", Sub |-> <<>>]
    ELSE [err |-> "nil", Sub |-> reply.sub]

GetUserInfo(h, tok, reply) ==
    IF reply.do # "ok" THEN [err |-> "transport error", Sub |-> <<>>]
    ELSE IF ~StatusOK(reply.status)
         THEN [err |-> "userinfo lookup error", Sub |-> <<>>]
    ELSE IF reply.json # "ok" THEN [err |-> "json error", Sub |-> <<>>]
    ELSE [err |-> "nil", Sub |-> reply.sub]

\* h.acl(up): the ACL callback, or nil when none is configured
acl(h, up, env) == IF ~h.ACL THEN "nil" ELSE env.acl

\* writeProfile(w, p): the WriteProfile callback, or nil when none is configured
writeProfile(h, up, env) == IF ~h.WriteProfile THEN "nil" ELSE env.wp

\* up.ID = h.Service + "_" + up.Sub
SubjectIDNoService(h, up) == up.Sub

SubjectID(h, up) == h.Service \o <<Underscore>> \o up.Sub

----------------------------------------------------------------------------
\* The entry points. Each yields the response written, the calls made in
\* order, whether the handler panicked, and the token it sealed (if any)
\* together with the bytes it was asked to seal.

Result(w, calls, sealed) ==
    [w |-> w, calls |-> calls, panicked |-> FALSE, sealed |-> sealed]

\* a panic unwinds the handler: net/http recovers it and closes the
\* connection, the client gets no response
Panic(calls) ==
    [w |-> NewWriter, calls |-> calls, panicked |-> TRUE, sealed |-> <<>>]

finalizeLoginDefaultOnly(h, w, r) == HttpRedirect(w, r, ToURL(<<Slash>>), 307)

\* what a configured FinalizeLogin writes is its own business: here 200 and
\* a text
finalizeLogin(h, w, r) ==
    IF h.FinalizeLogin
    THEN [w EXCEPT !.status = 200, !.body = <<Text("FinalizeLogin")>>]
    ELSE HttpRedirect(w, r, ToURL(<<Slash>>), 307)

HandleLogoff(h, w) ==
    HttpSetCookie(w, [Name |-> h.CookieName,
                      Value |-> EmptyString,
                      Expires |-> TimeUnix(0),
                      Path |-> "/",
                      Domain |-> h.Domain,
                      Secure |-> TRUE,
                      HttpOnly |-> TRUE])

\* origin := r.URL.String()
OriginRoot(r) == <<Slash>>

Origin(r) == r.url

HandleLogin(h, r, at, nonce) ==
    LET c == Cookie(h, r, at) IN
    IF c.err = "panic" THEN Panic(<<"Cookie">>) ELSE
    IF c.err = "nil"
    THEN Result(finalizeLogin(h, NewWriter, r), <<"Cookie", "finalizeLogin">>, <<>>)
    ELSE
    LET bad == c.err # "ErrNoCookie"
        w1 == IF bad THEN HandleLogoff(h, NewWriter) ELSE NewWriter
        b == EncryptBytes(h.StateKey, Origin(r), nonce)
        url == AuthCodeURL(EncodeToString(b))
    IN  Result(HttpRedirect(w1, r, url, 307),
               <<"Cookie">> \o (IF bad THEN <<"HandleLogoff">> ELSE <<>>)
                   \o <<"EncryptBytes", "AuthCodeURL", "Redirect">>,
               <<[tok |-> b, in |-> Origin(r)]>>)

HandleRedirect(h, r, env, at, nonce) ==
    LET rawState == DecodeString(r.state) IN
    IF rawState.err # "nil"
    THEN Result(HttpError(NewWriter, <<rawState.err>>, 401), <<"DecodeString">>, <<>>)
    ELSE
    LET d == DecryptBytes(h.StateKey, rawState.out)
        c1 == <<"DecodeString", "DecryptBytes">>
    IN
    IF d.err # "nil" THEN Result(HttpError(NewWriter, <<d.err>>, 401), c1, <<>>) ELSE
    LET home == d.out
        tok == Exchange(env)
        c2 == Append(c1, "Exchange")
    IN
    IF tok.err # "nil" THEN Result(HttpError(NewWriter, <<tok.err>>, 401), c2, <<>>) ELSE
    LET up == GetUserInfo(h, tok.tok, env.userinfo)
        c3 == Append(c2, "GetUserInfo")
    IN
    IF up.err # "nil"
    THEN Result(HttpError(NewWriter, <<"userinfo request error: ", up.err>>, 500), c3, <<>>)
    ELSE
    LET err == up.err
        aclErr == acl(h, up, env)
        c4 == c3 \o <<"acl">> \o (IF h.ACL THEN <<"ACL">> ELSE <<>>)
    IN
    IF err # aclErr
    THEN \* err.Error() on the nil err of the userinfo step
         IF err = "nil" THEN Panic(c4)
         ELSE Result(HttpError(NewWriter, <<"ACL error: ", err>>, 500), c4, <<>>)
    ELSE
    LET id == SubjectID(h, up)
        c5 == c4 \o <<"writeProfile">> \o (IF h.WriteProfile THEN <<"WriteProfile">> ELSE <<>>)
        ignored == writeProfile(h, up, env)
        w2 == setCookie(h, NewWriter, id, at, nonce)
        w3 == HttpRedirect(w2, r, ToURL(home), 307)
        out == EncryptBytes(h.CookieKey, CookiePayload(h, id, at), nonce)
    IN  Result(w3, c5 \o <<"SetCookie", "Redirect">>, <<[tok |-> out, in |-> id]>>)

----------------------------------------------------------------------------
\* The inputs

Range(f) == {f[i] : i \in DOMAIN f}

Browsers == {"b1", "b2"}

\* the browser that starts logins; the other one only calls back and logs
\* off
LoginBrowsers == {"b1"}

\* the URL of a request for the path p, when p holds nothing that is
\* escaped: r.URL.String() and r.URL.Path are both p
Path(p) == [str |-> p, path |-> p]

\* the URLs of the login requests: "/p", and "/a/../d", which is not in
\* clean form
URLs == {<<Slash, 112>>, <<Slash, 97, Slash, 46, 46, Slash, 100>>}

\* the URL of the request "GET http://e/ HTTP/1.1", which names another
\* site; a server passes it to the handler as it comes
Elsewhere ==
    [str |-> <<104, 116, 116, 112, 58, Slash, Slash, 101, Slash>>, path |-> <<Slash>>]

\* the URL of the request "OPTIONS * HTTP/1.1", a relative reference
Asterisk == Path(<<42>>)

\* the login URLs of the session specification: those above, one of
\* another site and a relative one
Targets == {Path(u) : u \in URLs} \cup {Elsewhere, Asterisk}

\* the URL the provider sends the browser back to: "/o/cb" (the query,
\* which holds the state, is kept apart)
CallbackURL == Path(<<Slash, 111, Slash, 99, 98>>)

\* the methods of the login requests
Methods == {"GET", "POST"}

\* the provider sends the browser back with a redirect, which it follows
\* with a GET
CallbackMethods == {"GET"}

\* a target no handler was asked for
EvilURL == <<101>>

\* provider subjects: "x" and "x y"
Subs == {<<120>>, <<120, Space, 121>>}

\* the instants the clock shows: the ticks of the second a run starts in,
\* 23h59m later, and the ticks of the second 24h later
Instants ==
    {Epoch * Second + k : k \in 0..(Resolution - 1)}
        \cup {Epoch * Second + Day - 60 * Second}
        \cup {Epoch * Second + Day + k : k \in 0..(Resolution - 1)}

\* the deployment of the flow specification: two services behind one cookie
\* key, the second with its own domain, a rotated state key and every
\* optional callback configured
H1 ==
    [Domain |-> <<97>>, StateKey |-> 1, CookieKey |-> 11, CookieName |-> <<>>,
     Service |-> <<103>>, ACL |-> FALSE, WriteProfile |-> FALSE,
     FinalizeLogin |-> FALSE]

H2 ==
    [Domain |-> <<98>>, StateKey |-> 2, CookieKey |-> 11, CookieName |-> <<115, 105, 100>>,
     Service |-> <<104>>, ACL |-> TRUE, WriteProfile |-> TRUE,
     FinalizeLogin |-> TRUE]

Deployment == {H1, H2}

\* a third service, configured with the cookie name "a b"
H3 == [H1 EXCEPT !.CookieName = <<97, Space, 98>>, !.StateKey = 3]

\* the handlers of the codec specification: one per Domain string over
\* {'a', ' '}, all with the same CookieKey
DomainStrings == SeqsUpTo({97, Space}, MaxDomainLen) \ {<<>>}

CodecHandlers == {[H1 EXCEPT !.Domain = d] : d \in DomainStrings}

\* the identities of the codec specification: strings over {'x', ' '}
Identities == SeqsUpTo({120, Space}, MaxIdLen)

\* what the userinfo endpoint may answer: no answer, a status outside 2xx
\* (the 300 with a body that would decode to a Profile), a body that is not JSON
FailReplies ==
    {[do |-> "err", status |-> 0, json |-> "-", sub |-> <<>>]}
        \cup {[do |-> "ok", status |-> 199, json |-> "-", sub |-> <<>>]}
        \cup {[do |-> "ok", status |-> 300, json |-> "ok", sub |-> <<120>>]}
        \cup {[do |-> "ok", status |-> 200, json |-> "bad", sub |-> <<>>]}

OkReplies ==
    {[do |-> "ok", status |-> 200, json |-> "ok", sub |-> x] : x \in Subs}
        \cup {[do |-> "ok", status |-> 299, json |-> "ok", sub |-> <<120>>]}

NoEnv == [exchange |-> "-", userinfo |-> NotCalled, acl |-> "-", wp |-> "-"]

\* a token with one bit flipped in its box
Tampered(tok) == [tok EXCEPT !.intact = FALSE]

\* a token whose leading 24 bytes, the nonce, were changed
Renonced(tok) == [tok EXCEPT !.nonce = tok.nonce + 1]

\* a token sealed by a party that holds none of the handlers' keys (its own
\* key is 0, its nonce 0)
Forged(pt) == Seal(0, pt, 0)

IssuedFor(use) == {i.tok : i \in {j \in issued : j.use = use}}

\* the cookie values a client can put in a request: issued ones, and the
\* malformed, tampered and foreign-key ones it can make itself
CookieValues ==
    {EncodeToString(i.tok) : i \in {j \in issued : j.b \in Browsers}}
        \cup {EncodeToString(Tampered(t)) : t \in IssuedFor("cookie")}
        \cup {Malformed,
              EncodeToString(Forged(PutUint64(Unix(now)) \o <<97, Space, 120>>))}

\* the cookies a request to handler h may carry; the client names them as
\* the handler expects
CookieChoices(h) ==
    {NoCookie} \cup {ReqCookie(cookieName(h), v) : v \in CookieValues}

\* the state parameters a client can put in a callback
StateChoices ==
    {EncodeToString(i.tok) : i \in {j \in issued : j.b \in Browsers}}
        \cup {EncodeToString(Tampered(t)) : t \in IssuedFor("state")}
        \cup {Malformed,
              EncodeToString(ShortBytes(NonceLen - 1)),
              EncodeToString(Forged(EvilURL))}

\* a request: who sent it, its session cookie, its URL as the server parsed
\* it from the request line (url is r.URL.String(), path is r.URL.Path), its
\* state parameter and its method
Request(b, c, u, s, m) ==
    [b |-> b, cookie |-> c, url |-> u.str, path |-> u.path, state |-> s, method |-> m]

----------------------------------------------------------------------------
\* The browser

EmptyJar ==
    [Name |-> <<>>, Value |-> EmptyString, Expires |-> 0, Path |-> "/",
     Domain |-> <<>>, Secure |-> TRUE, HttpOnly |-> TRUE]

\* a browser applies one Set-Cookie header: an expired or empty cookie
\* removes the stored cookie of the same name, domain and path; any other
\* replaces what is stored
StoreCookie(held, c, at) ==
    IF c.Expires <= at
    THEN IF held.Name = c.Name /\ held.Domain = c.Domain /\ held.Path = c.Path
         THEN EmptyJar ELSE held
    ELSE c

RECURSIVE StoreAll(_, _, _)
StoreAll(held, cs, at) ==
    IF cs = <<>> THEN held ELSE StoreAll(StoreCookie(held, Head(cs), at), Tail(cs), at)

----------------------------------------------------------------------------
\* The state machine

NextNonce == Cardinality(issued) + 1

Record(op, h, r, in, env, res, ret) ==
    [op |-> op, h |-> h, r |-> r, in |-> in, env |-> env, w |-> res.w,
     calls |-> res.calls, panicked |-> res.panicked, ret |-> ret]

NoRet == Failed("-")

NoRequest == Request("b1", NoCookie, Path(<<>>), EmptyString, "GET")

\* no HandleRedirect call is waiting
NoPending == [stage |-> "none", h |-> H1, r |-> NoRequest, env |-> NoEnv]

Idle == Record("idle", H1, NoRequest, <<>>, NoEnv, Result(NewWriter, <<>>, <<>>), NoRet)

Init ==
    /\ handlers = Deployment
    /\ now = Epoch * Second
    /\ jar = [b \in Browsers |-> EmptyJar]
    /\ issued = {}
    /\ pending = NoPending
    /\ last = Idle

\* the session specification: the deployment and the third service
InitSession ==
    /\ handlers = Deployment \cup {H3}
    /\ now = Epoch * Second
    /\ jar = [b \in Browsers |-> EmptyJar]
    /\ issued = {}
    /\ pending = NoPending
    /\ last = Idle

InitCodec ==
    /\ handlers = CodecHandlers
    /\ now = Epoch * Second
    /\ jar = [b \in Browsers |-> EmptyJar]
    /\ issued = {}
    /\ pending = NoPending
    /\ last = Idle

\* requests are served one at a time: the handlers share no mutable state,
\* so concurrent requests behave as some sequence of them
Ready == last.op = "idle"

\* a cookie the handler sealed is on the wire, in the hands of browser b,
\* unless the response carries no Set-Cookie header: then nobody has it.
\* `issued` remembers who sealed it, when, and for which identity
Sealed(b, h, res) ==
    issued' = issued \cup
        {[tok |-> s.tok, in |-> s.in, use |-> "cookie",
          b |-> IF res.w.setCookies = <<>> THEN "nobody" ELSE b, h |-> h,
          at |-> now] : s \in Range(res.sealed)}

\* time passes between requests
Advance ==
    /\ Ready
    /\ \E t \in Instants : t > now /\ now' = t
    /\ UNCHANGED <<handlers, pending, jar, issued, last>>

\* HandleLogin serves the request r of browser b
LoginOf(h, b, r) ==
    \E res \in {HandleLogin(h, r, now, NextNonce)} :
        /\ res.sealed # <<>> => Cardinality(issued) < MaxSeals
        /\ issued' = issued \cup
               {[tok |-> s.tok, in |-> s.in, use |-> "state", b |-> b, h |-> h,
                 at |-> 0] : s \in Range(res.sealed)}
        /\ last' = Record("HandleLogin", h, r, <<>>, NoEnv, res, NoRet)
        /\ UNCHANGED <<handlers, pending, now, jar>>

Login ==
    /\ Ready
    /\ \E h \in handlers, b \in LoginBrowsers, u \in URLs, m \in Methods :
      \E c \in CookieChoices(h) :
            LoginOf(h, b, Request(b, c, Path(u), EmptyString, m))

\* a browser without a session is sent to log in from any of the Targets
Visit ==
    /\ Ready
    /\ \E h \in handlers, b \in LoginBrowsers, u \in Targets :
            LoginOf(h, b, Request(b, NoCookie, u, EmptyString, "GET"))

Logoff ==
    /\ Ready
    /\ \E h \in handlers, b \in Browsers :
      \E c \in {NoCookie} \cup
               {ReqCookie(jar[b].Name, jar[b].Value) : x \in {jar[b].Name} \ {<<>>}} :
      \E r \in {Request(b, c, Path(<<Slash>>), EmptyString, "GET")} :
      \E res \in {Result(HandleLogoff(h, NewWriter), <<>>, <<>>)} :
            /\ last' = Record("HandleLogoff", h, r, <<>>, NoEnv, res, NoRet)
            /\ UNCHANGED <<handlers, pending, now, jar, issued>>

\* HandleRedirect waits for others five times: for h.Exchange, for the reply
\* of the userinfo endpoint (Do), for the body of that reply (Decode), and
\* for the ACL and WriteProfile callbacks. Other requests are served and the
\* clock moves meanwhile, so the call is taken in steps, one per wait. It
\* touches nothing shared before setCookie reads the clock, so each step
\* evaluates the handler on what has been answered so far. A step that
\* writes no response commutes with the delivery of the response in `last`
\* (Receive), so it is taken after that delivery.

\* the wait at which the handler stands: the first call it made that env
\* does not answer
Waits(env, calls) ==
    IF "Exchange" \in Range(calls) /\ env.exchange = "-" THEN "exchange"
    ELSE IF "GetUserInfo" \in Range(calls) /\ env.userinfo = NotCalled THEN "do"
    ELSE IF "ACL" \in Range(calls) /\ env.acl = "-" THEN "acl"
    ELSE IF "WriteProfile" \in Range(calls) /\ env.wp = "-" THEN "wp"
    ELSE "none"

\* the waiting call goes on with the answers env: up to its next wait, or to
\* its end, where the response is written
Continue(env) ==
    /\ Ready
    /\ \E res \in {HandleRedirect(pending.h, pending.r, env, now, NextNonce)} :
          IF Waits(env, res.calls) # "none"
          THEN /\ pending' = [pending EXCEPT !.stage = Waits(env, res.calls), !.env = env]
               /\ UNCHANGED <<handlers, now, jar, issued, last>>
          ELSE /\ res.sealed # <<>> => Cardinality(issued) < MaxSeals
               /\ Sealed(pending.r.b, pending.h, res)
               /\ last' = Record("HandleRedirect", pending.h, pending.r, <<>>, env, res, NoRet)
               /\ pending' = NoPending
               /\ UNCHANGED <<handlers, now, jar>>

\* a callback arrives with a state parameter that the handler refuses
StateRefused ==
    /\ Ready
    /\ pending.stage = "none"
    /\ \E h \in handlers, b \in Browsers, s \in StateChoices, m \in CallbackMethods :
      \E r \in {Request(b, NoCookie, CallbackURL, s, m)} :
      \E res \in {HandleRedirect(h, r, NoEnv, now, NextNonce)} :
            /\ Waits(NoEnv, res.calls) = "none"
            /\ last' = Record("HandleRedirect", h, r, <<>>, NoEnv, res, NoRet)
            /\ UNCHANGED <<handlers, now, jar, issued, pending>>

\* a callback arrives with a state parameter that opens: the handler calls
\* h.Exchange and waits
CallbackArrives ==
    /\ Ready
    /\ pending.stage = "none"
    /\ \E h \in handlers, b \in Browsers, s \in StateChoices, m \in CallbackMethods :
      \E r \in {Request(b, NoCookie, CallbackURL, s, m)} :
      \E res \in {HandleRedirect(h, r, NoEnv, now, NextNonce)} :
            /\ Waits(NoEnv, res.calls) = "exchange"
            /\ pending' = [stage |-> "exchange", h |-> h, r |-> r, env |-> NoEnv]
            /\ UNCHANGED <<handlers, now, jar, issued, last>>

\* h.Exchange returns an error: 401
ExchangeFails ==
    /\ pending.stage = "exchange"
    /\ Continue([pending.env EXCEPT !.exchange = "err"])

\* h.Exchange returns a token: GetUserInfo sends its request and waits
ExchangeReturns ==
    /\ pending.stage = "exchange"
    /\ Continue([pending.env EXCEPT !.exchange = "ok"])

\* Do returns an error, or a reply whose status GetUserInfo refuses: 500
DoFails ==
    /\ pending.stage = "do"
    /\ \E u \in {v \in FailReplies : v.do # "ok" \/ ~StatusOK(v.status)} :
          Continue([pending.env EXCEPT !.userinfo = u])

\* Do returns the head of a reply with a status in 200..299: GetUserInfo
\* goes on to read its body
DoReturns ==
    /\ Ready
    /\ pending.stage = "do"
    /\ \E u \in {v \in FailReplies \cup OkReplies : v.do = "ok" /\ StatusOK(v.status)} :
          pending' = [pending EXCEPT !.stage = "body",
                                     !.env.userinfo = [NotCalled EXCEPT !.do = "ok",
                                                                        !.status = u.status]]
    /\ UNCHANGED <<handlers, now, jar, issued, last>>

\* the body of the reply has been read and decoded
BodyRead ==
    /\ pending.stage = "body"
    /\ \E u \in {v \in FailReplies \cup OkReplies :
                    v.do = "ok" /\ v.status = pending.env.userinfo.status} :
          Continue([pending.env EXCEPT !.userinfo = u])

\* the ACL callback returns
ACLReturns ==
    /\ pending.stage = "acl"
    /\ \E a \in {"nil", "denied"} : Continue([pending.env EXCEPT !.acl = a])

\* the WriteProfile callback returns
WriteProfileReturns ==
    /\ pending.stage = "wp"
    /\ \E p \in {"nil", "write failed"} : Continue([pending.env EXCEPT !.wp = p])

\* a service behind the middleware reads the session of a request; who sent
\* the request does not enter Cookie
ReadCookie ==
    /\ Ready
    /\ \E h \in handlers :
      \E c \in CookieChoices(h) :
      \E r \in {Request("b1", c, Path(<<Slash>>), EmptyString, "GET")} :
      \E ret \in {Cookie(h, r, now)} :
            /\ last' = Record("Cookie", h, r, <<>>, NoEnv, Result(NewWriter, <<>>, <<>>), ret)
            /\ UNCHANGED <<handlers, pending, now, jar, issued>>

\* setCookie called for an identity of the caller's choosing; the codec
\* specification follows one cookie
IssueCookie ==
    /\ Ready
    /\ \E h \in handlers, in \in Identities :
      \E res \in {Result(setCookie(h, NewWriter, in, now, NextNonce), <<>>,
                         <<[tok |-> EncryptBytes(h.CookieKey, CookiePayload(h, in, now),
                                                 NextNonce),
                            in |-> in]>>)} :
            /\ issued = {}
            /\ Sealed("b1", h, res)
            /\ last' = Record("setCookie", h, NoRequest, in, NoEnv, res, NoRet)
            /\ UNCHANGED <<handlers, pending, now, jar>>

\* the client receives the response: its browser stores or drops cookies as
\* the Set-Cookie headers say; a panicked handler sent nothing
Receive ==
    /\ ~Ready
    /\ jar' = [jar EXCEPT ![last.r.b] =
                   IF last.panicked THEN @ ELSE StoreAll(@, last.w.setCookies, now)]
    /\ last' = Idle
    /\ UNCHANGED <<handlers, pending, now, issued>>

Next ==
    \/ Advance \/ Login \/ Logoff \/ ReadCookie \/ Receive
    \/ StateRefused \/ CallbackArrives \/ ExchangeFails \/ ExchangeReturns
    \/ DoFails \/ DoReturns \/ BodyRead \/ ACLReturns \/ WriteProfileReturns

Spec == Init /\ [][Next]_vars

\* logins from any of the Targets and the callbacks that follow them
NextSession ==
    \/ Advance \/ Visit \/ Receive
    \/ StateRefused \/ CallbackArrives \/ ExchangeFails \/ ExchangeReturns
    \/ DoFails \/ DoReturns \/ BodyRead \/ ACLReturns \/ WriteProfileReturns

SpecSession == InitSession /\ [][NextSession]_vars

NextCodec == Advance \/ IssueCookie \/ ReadCookie \/ Receive

SpecCodec == InitCodec /\ [][NextCodec]_vars

----------------------------------------------------------------------------
\* Properties of the session cookie codec (checked under SpecCodec)

\* the call in `last` is Cookie on a request that carries, under the name the
\* handler expects, the cookie of issue record i
Presents(i) ==
    /\ last.op = "Cookie"
    /\ i.use = "cookie"
    /\ last.r.cookie = ReqCookie(cookieName(last.h), EncodeToString(i.tok))

SameKey(i) == last.h.CookieKey = i.h.CookieKey

SameDomain(i) == last.h.Domain = i.h.Domain

NoSpace(d) == \A k \in 1..Len(d) : d[k] # Space

\* the second the cookie of issue record i was stamped with, as a time
Stamp(i) == (i.at \div Second) * Second

\* C1 as stated: measured from the time of issue T itself, a cookie read by
\* Cookie under the same key and domain is rejected with ErrCookieExpired when
\* R - T > 24h and accepted, its identity returned, when R - T <= 24h.
C1_AsStated ==
    \A i \in issued :
        Presents(i) /\ SameKey(i) /\ SameDomain(i) =>
            IF now - i.at > Day THEN last.ret.err = "ErrCookieExpired"
            ELSE last.ret = [err |-> "nil", b |-> i.in]

\* C1 amended: the 24 hours run from the time of issue truncated to whole
\* seconds. A cookie read under the same key and domain is rejected with
\* ErrCookieExpired when R - floor(T) > 24h, and is accepted, its identity
\* returned, when R - floor(T) <= 24h and the Domain contains no space byte.
C1_ExpiryFromStamp ==
    \A i \in issued :
        Presents(i) /\ SameKey(i) /\ SameDomain(i) =>
            /\ now - Stamp(i) > Day => last.ret.err = "ErrCookieExpired"
            /\ now - Stamp(i) <= Day /\ NoSpace(i.h.Domain) =>
                   last.ret = [err |-> "nil", b |-> i.in]

\* a cookie issued within a second is read exactly 24h after its stamp, so
\* less than 24h after its issue, and accepted; one tick later it is not
C1_Witness ==
    \E i \in issued :
        /\ Presents(i) /\ SameKey(i) /\ SameDomain(i) /\ NoSpace(i.h.Domain)
        /\ i.at > Stamp(i)
        /\ now - Stamp(i) = Day
        /\ last.ret.err = "nil"

\* C2 as stated: for every two distinct domains A and B, an unexpired cookie
\* issued for A is rejected with ErrCookieDomain by Cookie on an instance with
\* Domain B and the same CookieKey.
C2_AsStated ==
    \A i \in issued :
        Presents(i) /\ SameKey(i) /\ ~SameDomain(i) /\ now - Stamp(i) <= Day =>
            last.ret.err = "ErrCookieDomain"

\* C2 amended: the same, for every issuing domain A that contains no space
\* byte (B is any domain other than A).
C2_DomainBinding ==
    \A i \in issued :
        Presents(i) /\ SameKey(i) /\ ~SameDomain(i) /\ now - Stamp(i) <= Day
            /\ NoSpace(i.h.Domain) =>
                last.ret.err = "ErrCookieDomain"

C2_Witness ==
    \E i \in issued :
        /\ Presents(i) /\ SameKey(i) /\ ~SameDomain(i) /\ now - Stamp(i) <= Day
        /\ NoSpace(i.h.Domain) /\ NoSpace(last.h.Domain)
        /\ last.ret.err = "ErrCookieDomain"

\* C3 as stated: for every identity S, spaces included, and every Domain D
\* without a space, Cookie applied within 24 hours of the issue to the cookie
\* setCookie issued for (S, D), under the same key and domain, returns S.
C3_AsStated ==
    \A i \in issued :
        Presents(i) /\ SameKey(i) /\ SameDomain(i) /\ NoSpace(i.h.Domain)
            /\ now - i.at <= Day =>
                last.ret = [err |-> "nil", b |-> i.in]

\* C3 amended: the same, with the 24 hours running from the time of issue
\* truncated to whole seconds: what Cookie returns is exactly the bytes of S,
\* everything after the first delimiter.
C3_IdentityRoundTrip ==
    \A i \in issued :
        Presents(i) /\ SameKey(i) /\ SameDomain(i) /\ NoSpace(i.h.Domain)
            /\ now - Stamp(i) <= Day =>
                last.ret = [err |-> "nil", b |-> i.in]

\* an identity with two spaces comes back whole
C3_Witness ==
    \E i \in issued :
        /\ Presents(i) /\ SameKey(i) /\ SameDomain(i) /\ NoSpace(i.h.Domain)
        /\ Len(i.in) = MaxIdLen /\ i.in[1] = Space /\ i.in[MaxIdLen] = Space
        /\ last.ret = [err |-> "nil", b |-> i.in]

----------------------------------------------------------------------------
\* Properties of the login flow (checked under Spec)

IsCallback == last.op = "HandleRedirect"

\* the state parameter of the request in `last` is the unmodified token of
\* issue record i
CarriesState(i) == i.use = "state" /\ last.r.state = EncodeToString(i.tok)

\* the state parameter is not base64url, or is too short, modified, or
\* sealed under another key than the instance's StateKey
BadState ==
    \/ last.r.state.kind # "b64"
    \/ last.r.state.raw.kind = "short"
    \/ /\ last.r.state.raw.kind = "box"
       /\ \/ ~last.r.state.raw.intact
          \/ last.r.state.raw.sealKey # last.h.StateKey

NoSession == last.w.setCookies = <<>>

NoOriginRedirect == last.w.location.kind # "url"

\* C4: a callback whose state parameter is not valid base64url or does not
\* open under the instance's StateKey ends with 401, sets no cookie and
\* redirects nowhere.
C4_BadStateIs401 ==
    IsCallback /\ BadState =>
        last.w.status = 401 /\ NoSession /\ last.w.location.kind = "none"

\* a state sealed by the instance with the rotated StateKey is refused
C4_Witness ==
    /\ IsCallback
    /\ \E i \in issued : CarriesState(i) /\ i.h.StateKey # last.h.StateKey
    /\ last.w.status = 401

\* C5 as stated: a state token HandleLogin issued to one browser session is
\* not accepted by HandleRedirect in a callback made by another browser session.
C5_AsStated ==
    \A i \in issued :
        IsCallback /\ CarriesState(i) /\ i.b # last.r.b =>
            NoSession /\ NoOriginRedirect

\* C7: HandleLogin on a request without a session cookie answers 307 to the
\* provider URL whose state parameter, decoded and opened under StateKey, is
\* the request URL; it sets no cookie and performs no Logoff.
C7_LoginRedirectsWithState ==
    last.op = "HandleLogin" /\ last.r.cookie = NoCookie =>
        /\ last.w.status = 307
        /\ last.w.location.kind = "provider"
        /\ DecryptBytes(last.h.StateKey, DecodeString(last.w.location.state).out)
               = [err |-> "nil", out |-> last.r.url]
        /\ NoSession
        /\ "HandleLogoff" \notin Range(last.calls)

C7_Witness ==
    /\ last.op = "HandleLogin"
    /\ last.r.cookie = NoCookie
    /\ last.r.url = <<Slash, 112>>
    /\ last.w.location.kind = "provider"

\* C9 as stated: when the ACL returns an error the request ends with 500 and
\* the ACL's message, no cookie and no redirect; when the ACL is absent or
\* returns nil the flow goes on to the profile write.
C9_AsStated ==
    IsCallback =>
        /\ last.env.acl = "denied" =>
               /\ last.w.status = 500
               /\ last.w.body = <<Text("ACL error: "), Text("denied"), Text("\n")>>
               /\ NoSession
               /\ NoOriginRedirect
        /\ last.env.userinfo \in OkReplies /\ last.env.acl \in {"-", "nil"} =>
               "writeProfile" \in Range(last.calls)

\* C10 as stated: when WriteProfile returns an error no session cookie is
\* issued and no redirect to the origin URL is sent.
C10_AsStated ==
    IsCallback /\ last.env.wp = "write failed" => NoSession /\ NoOriginRedirect

\* the callback in `last` carries the unmodified state token of issue record
\* i, sealed under the instance's own StateKey
ValidState(i) == IsCallback /\ CarriesState(i) /\ i.h.StateKey = last.h.StateKey

\* the steps of HandleRedirect that follow the profile fetch
LaterSteps == {"acl", "ACL", "writeProfile", "WriteProfile", "SetCookie"}

\* C11: in a callback with a valid state token, a failed code exchange ends
\* the request with 401 and a failed profile fetch ends it with 500; in both
\* cases no session cookie is set, neither the ACL check nor the profile
\* write nor the cookie issue is performed, and nothing redirects to the
\* origin URL.
C11_ExchangeAndProfileFailures ==
    \A i \in issued :
        ValidState(i) =>
            /\ last.env.exchange = "err" =>
                   /\ last.w.status = 401
                   /\ last.w.body = <<Text("exchange error"), Text("\n")>>
                   /\ "GetUserInfo" \notin Range(last.calls)
                   /\ Range(last.calls) \cap LaterSteps = {}
                   /\ NoSession /\ NoOriginRedirect
            /\ last.env.userinfo \in FailReplies =>
                   /\ last.w.status = 500
                   /\ last.w.body[1] = Text("userinfo request error: ")
                   /\ Range(last.calls) \cap LaterSteps = {}
                   /\ NoSession /\ NoOriginRedirect

\* the userinfo endpoint answers 300 to a callback with a valid state
C11_Witness ==
    \E i \in issued :
        /\ ValidState(i)
        /\ last.env.userinfo.status = 300
        /\ last.w.status = 500

\* C12 as stated: the response of HandleLogoff sets one cookie, with the name
\* of the session cookie (CookieName, or "session" when CookieName is not
\* configured), its path and its domain, an empty value and an expiry in the
\* past.
C12_AsStated ==
    last.op = "HandleLogoff" =>
        /\ Len(last.w.setCookies) = 1
        /\ last.w.setCookies[1].Name = cookieName(last.h)
        /\ last.w.setCookies[1].Path = "/"
        /\ last.w.setCookies[1].Domain = last.h.Domain
        /\ last.w.setCookies[1].Value = EmptyString
        /\ last.w.setCookies[1].Expires < now

\* the request in `last` carries a session cookie, under the name the
\* instance expects, that Cookie refuses: malformed, modified, sealed under a
\* foreign key, expired, or issued for another domain
BadCookie ==
    /\ last.r.cookie.kind = "cookie"
    /\ last.r.cookie.Name = cookieName(last.h)
    /\ \/ last.r.cookie.Value.kind # "b64"
       \/ last.r.cookie.Value.raw.kind = "short"
       \/ /\ last.r.cookie.Value.raw.kind = "box"
          /\ \/ ~last.r.cookie.Value.raw.intact
             \/ last.r.cookie.Value.raw.sealKey # last.h.CookieKey
             \/ \E i \in issued :
                    /\ i.use = "cookie"
                    /\ i.tok = last.r.cookie.Value.raw
                    /\ \/ now - Stamp(i) > Day
                       \/ i.h.Domain # last.h.Domain

\* the cookie is one that clears: empty value, expiry in the past
Clears(c) == c.Value = EmptyString /\ c.Expires < now

\* C13 as stated: HandleLogin on a request whose session cookie is present
\* but fails validation first performs Logoff, so that the response clears
\* the session cookie, then redirects to the provider with a fresh state for
\* the request URL; finalizeLogin is not invoked.
C13_AsStated ==
    last.op = "HandleLogin" /\ BadCookie =>
        /\ "HandleLogoff" \in Range(last.calls)
        /\ Len(last.w.setCookies) = 1
        /\ last.w.setCookies[1].Name = cookieName(last.h)
        /\ Clears(last.w.setCookies[1])
        /\ last.w.status = 307
        /\ last.w.location.kind = "provider"
        /\ DecryptBytes(last.h.StateKey, DecodeString(last.w.location.state).out)
               = [err |-> "nil", out |-> last.r.url]
        /\ "finalizeLogin" \notin Range(last.calls)

----------------------------------------------------------------------------
\* The composite subject identity (checked under SpecID): instances that
\* differ in their Service only, each composing the identity of a subject

\* service names and provider subjects over {'g', '_'} and {'x', '_'}
ServiceNames == SeqsUpTo({103, Underscore}, MaxNameLen) \ {<<>>}

ProviderSubs == SeqsUpTo({120, Underscore}, MaxNameLen)

ServiceHandlers == {[H1 EXCEPT !.Service = s] : s \in ServiceNames}

InitID ==
    /\ handlers = ServiceHandlers
    /\ now = Epoch * Second
    /\ jar = [b \in Browsers |-> EmptyJar]
    /\ issued = {}
    /\ pending = NoPending
    /\ last = Idle

\* HandleRedirect composes up.ID for the profile the provider returned
Compose ==
    /\ Ready
    /\ \E h \in handlers, sub \in ProviderSubs :
      \E reply \in {[do |-> "ok", status |-> 200, json |-> "ok", sub |-> sub]} :
      \E up \in {GetUserInfo(h, "token", reply)} :
            /\ last' = Record("SubjectID", h, NoRequest, SubjectID(h, up),
                              [NoEnv EXCEPT !.exchange = "ok", !.userinfo = reply],
                              Result(NewWriter, <<>>, <<>>), NoRet)
            /\ UNCHANGED <<handlers, pending, now, jar, issued>>

NextID == Advance \/ Compose \/ Receive

SpecID == InitID /\ [][NextID]_vars

\* C14 as stated: the composite identity of a pair (service name, provider
\* subject) is the composite identity of no other pair.
C14_AsStated ==
    last.op = "SubjectID" =>
        \A h \in handlers, sub \in ProviderSubs :
            <<h.Service, sub>> # <<last.h.Service, last.env.userinfo.sub>> =>
                SubjectID(h, [Sub |-> sub]) # last.in

----------------------------------------------------------------------------
\* The AEAD wrapper on its own (checked under SpecKey): the instances of the
\* deployment seal payloads under their StateKey and open what callers hand
\* them

\* the payloads sealed: nothing, "/p" and "/a/../d"
Payloads == {<<>>} \cup URLs

\* what a caller can hand to DecryptBytes: the tokens sealed so far, those
\* tokens with a bit of the box flipped or the box cut short, with the nonce
\* changed, a token of its own making, and byte strings shorter than a nonce
TokenChoices ==
    {i.tok : i \in issued}
        \cup {Tampered(i.tok) : i \in issued}
        \cup {Renonced(i.tok) : i \in issued}
        \cup {Forged(EvilURL), ShortBytes(0), ShortBytes(NonceLen - 1)}

Encrypt ==
    /\ Ready
    /\ Cardinality(issued) < MaxSeals
    /\ \E h \in handlers, p \in Payloads :
      \E b \in {EncryptBytes(h.StateKey, p, NextNonce)} :
            /\ issued' = issued \cup
                   {[tok |-> b, in |-> p, use |-> "raw", b |-> "b1", h |-> h, at |-> 0]}
            /\ last' = Record("EncryptBytes", h,
                              Request("b1", NoCookie, Path(<<>>), EncodeToString(b), "GET"), p, NoEnv,
                              Result(NewWriter, <<>>, <<>>), NoRet)
            /\ UNCHANGED <<handlers, pending, now, jar>>

Decrypt ==
    /\ Ready
    /\ \E h \in handlers, t \in TokenChoices :
      \E d \in {DecryptBytes(h.StateKey, t)} :
            /\ last' = Record("DecryptBytes", h,
                              Request("b1", NoCookie, Path(<<>>), EncodeToString(t), "GET"), <<>>, NoEnv,
                              Result(NewWriter, <<>>, <<>>), [err |-> d.err, b |-> d.out])
            /\ UNCHANGED <<handlers, pending, now, jar, issued>>

NextKey == Encrypt \/ Decrypt \/ Receive

SpecKey == Init /\ [][NextKey]_vars

\* the bytes handed to the DecryptBytes call in `last`
Handed == last.r.state.raw

\* the bytes handed are the unmodified output of the EncryptBytes call of
\* issue record i, made under the key of the DecryptBytes call
SealedSameKey(i) == i.tok = Handed /\ i.h.StateKey = last.h.StateKey

\* C15: DecryptBytes returns a plaintext only for an unmodified output of
\* EncryptBytes under the same key, and then exactly the payload that was
\* sealed; for an input shorter than 24 bytes, sealed under another key,
\* modified or truncated, it returns ErrInvalidCipher and no plaintext.
C15_OpensOnlyWhatWasSealed ==
    last.op = "DecryptBytes" =>
        /\ \A i \in issued :
               SealedSameKey(i) => last.ret = [err |-> "nil", b |-> i.in]
        /\ last.ret.err = "nil" => \E i \in issued : SealedSameKey(i)
        /\ (\/ Handed.kind = "short"
            \/ \A i \in issued : ~SealedSameKey(i)) =>
               last.ret = [err |-> "ErrInvalidCipher", b |-> <<>>]

\* "/p" comes back from the token it was sealed in, while a second token
\* sealed under the other key is on the wire
C15_Witness ==
    /\ last.op = "DecryptBytes"
    /\ last.ret = [err |-> "nil", b |-> <<Slash, 112>>]
    /\ \E i \in issued : i.h.StateKey # last.h.StateKey

----------------------------------------------------------------------------
\* More properties of the login flow (checked under Spec)

\* the response that clears the session cookie of instance h and does
\* nothing else: no status, no body, no redirect
ClearedCookieResponse(h) ==
    [NewWriter EXCEPT !.setCookies =
        <<[Name |-> cookieName(h), Value |-> EmptyString, Expires |-> TimeUnix(0),
           Path |-> "/", Domain |-> h.Domain, Secure |-> TRUE, HttpOnly |-> TRUE]>>]

\* C16 as stated: every call of logoff, the first and the one right after it,
\* on a request with a valid session cookie or without one, produces the
\* same response, the one that clears the session cookie, and reports no
\* error.
C16_AsStated ==
    last.op = "HandleLogoff" =>
        ~last.panicked /\ last.w = ClearedCookieResponse(last.h)

\* the call in `last` is Cookie on the instance that issued the cookie of
\* issue record i, on a request that carries that cookie
PresentsToIssuer(i) == Presents(i) /\ last.h = i.h

\* the callback in `last` went past the state check
StateAccepted == "Exchange" \in Range(last.calls)

\* C17 as stated: no request changes keys or configuration; a valid session
\* cookie is accepted by Cookie on every presentation made less than 24
\* hours after the time of issue, also after HandleLogoff was called for the
\* session; a valid state token is accepted by HandleRedirect on every
\* presentation.
C17_AsStated ==
    /\ handlers = Deployment
    /\ \A i \in issued :
           PresentsToIssuer(i) /\ now - i.at < Day =>
               last.ret = [err |-> "nil", b |-> i.in]
    /\ \A i \in issued : ValidState(i) => StateAccepted

\* C17 amended: the same, with the cookie accepted until 24 hours after the
\* time of issue truncated to whole seconds.
C17_NothingIsRevoked ==
    /\ handlers = Deployment
    /\ \A i \in issued :
           PresentsToIssuer(i) /\ now - Stamp(i) <= Day =>
               last.ret = [err |-> "nil", b |-> i.in]
    /\ \A i \in issued : ValidState(i) => StateAccepted

\* a session is accepted 23h59m or more after its issue, although a logoff
\* has made the browser it was issued to discard it
C17_Witness ==
    \E i \in issued :
        /\ PresentsToIssuer(i)
        /\ i.h = H2
        /\ jar[i.b] = EmptyJar
        /\ now - i.at >= Day - 60 * Second
        /\ last.ret = [err |-> "nil", b |-> i.in]

\* the call in `last` is HandleLogin on a request that carries the cookie of
\* issue record i, which validates: sealed under the instance's CookieKey for
\* the instance's Domain, and not expired
LoginWithSession(i) ==
    /\ last.op = "HandleLogin"
    /\ i.use = "cookie"
    /\ last.r.cookie = ReqCookie(cookieName(last.h), EncodeToString(i.tok))
    /\ i.h.CookieKey = last.h.CookieKey
    /\ i.h.Domain = last.h.Domain
    /\ now - Stamp(i) <= Day

\* the short HTML page http.Redirect writes in answer to a GET
RedirectPage(loc) ==
    <<Text("<a href=\""), Link(loc), Text("\">"), Text("Temporary Redirect"),
      Text("</a>.\n"), Text("\n")>>

\* C18: HandleLogin on a request whose session cookie validates invokes the
\* finalize-login step once, the configured FinalizeLogin or else a 307 to
\* "/", and nothing else: no state token, no redirect to the provider, no
\* Logoff, no cookie.
C18_ValidSessionFinalizesOnly ==
    \A i \in issued :
        LoginWithSession(i) =>
            /\ last.calls = <<"Cookie", "finalizeLogin">>
            /\ ~last.panicked
            /\ IF last.h.FinalizeLogin
               THEN last.w = [NewWriter EXCEPT !.status = 200,
                                               !.body = <<Text("FinalizeLogin")>>]
               ELSE /\ last.w.status = 307
                    /\ last.w.location = ToURL(<<Slash>>)
                    /\ last.w.body = IF last.r.method = "GET"
                                     THEN RedirectPage(ToURL(<<Slash>>)) ELSE <<>>
            /\ NoSession
            /\ last.w.location.kind # "provider"

\* the instance with FinalizeLogin configured receives a login with a valid
\* session
C18_Witness ==
    \E i \in issued :
        /\ LoginWithSession(i)
        /\ last.h.FinalizeLogin
        /\ last.w.status = 200

\* how often the call in `last` made the call named c
Times(c) == Cardinality({k \in DOMAIN last.calls : last.calls[k] = c})

\* C19: in every HandleRedirect call the code exchange is attempted at most
\* once and only after the state parameter was decoded and opened under
\* StateKey, and the profile fetch is attempted at most once and only after
\* the code exchange succeeded.
C19_NoRetryInOrder ==
    IsCallback =>
        /\ Times("Exchange") <= 1
        /\ Times("GetUserInfo") <= 1
        /\ Times("Exchange") = 1 =>
               /\ ~BadState
               /\ SubSeq(last.calls, 1, 3) = <<"DecodeString", "DecryptBytes", "Exchange">>
        /\ Times("GetUserInfo") = 1 =>
               /\ last.env.exchange = "ok"
               /\ SubSeq(last.calls, 1, 4)
                      = <<"DecodeString", "DecryptBytes", "Exchange", "GetUserInfo">>
        /\ last.env.exchange = "err" => last.calls[Len(last.calls)] = "Exchange"
        /\ last.env.userinfo \in FailReplies => last.calls[Len(last.calls)] = "GetUserInfo"

\* the provider refuses the code of a callback with a valid state: the
\* exchange was the last call made
C19_Witness ==
    /\ IsCallback
    /\ last.env.exchange = "err"
    /\ last.calls = <<"DecodeString", "DecryptBytes", "Exchange">>
    /\ last.w.status = 401

\* the response in `last` sets a session: a cookie with a sealed value
SetsSession == \E k \in DOMAIN last.w.setCookies : last.w.setCookies[k].Value # EmptyString

\* C20: a session is never renewed by use. Neither Cookie nor HandleLogin
\* with a valid cookie issues a session cookie; every presentation of a
\* session's cookie later than 24 hours after its issue is rejected with
\* ErrCookieExpired; and a session cookie is created only by a HandleRedirect
\* that went through the whole callback flow (valid state, code exchange,
\* profile fetch, ACL, profile write, cookie issue, redirect), stamped with
\* the time of that call.
C20_NoRenewalByUse ==
    /\ last.op = "Cookie" => ~SetsSession
    /\ \A i \in issued : LoginWithSession(i) => ~SetsSession
    /\ \A i \in issued :
           Presents(i) /\ SameKey(i) /\ now - i.at > Day =>
               last.ret = Failed("ErrCookieExpired")
    /\ SetsSession =>
           /\ \E i \in issued : ValidState(i)
           /\ last.env.exchange = "ok"
           /\ last.env.userinfo \in OkReplies
           /\ last.env.acl \in {"-", "nil"}
           /\ SubSeq(last.calls, 1, 4)
                  = <<"DecodeString", "DecryptBytes", "Exchange", "GetUserInfo">>
           /\ {"acl", "writeProfile", "SetCookie", "Redirect"} \subseteq Range(last.calls)
           /\ Len(last.w.setCookies) = 1
           /\ Uint64(last.w.setCookies[1].Value.raw.pt) = Unix(now)

\* a session issued by a callback is presented to the other instance of the
\* deployment more than 24 hours later
C20_Witness ==
    \E i \in issued :
        /\ Presents(i) /\ SameKey(i)
        /\ last.h # i.h
        /\ now - i.at > Day
        /\ last.ret.err = "ErrCookieExpired"

----------------------------------------------------------------------------
\* The redirect target and the session of a finished callback (checked under
\* SpecSession)

\* what a party that holds no StateKey wants a browser sent to: the target
\* it sealed under a key of its own, and the site it asked HandleLogin for
OutsideTargets == {EvilURL, Elsewhere.str}

\* C6 as stated: the URL HandleRedirect redirects to after a successful
\* callback is the URL that was sealed under StateKey by an earlier
\* HandleLogin call (the request URL of that call), and it is no target that
\* a party without StateKey constructed.
C6_AsStated ==
    IsCallback /\ last.w.location.kind = "url" =>
        /\ \E i \in issued :
               /\ i.use = "state"
               /\ i.h.StateKey = last.h.StateKey
               /\ i.in = last.w.location.url
        /\ last.w.location.url \notin OutsideTargets

\* the callback in `last` carries a valid state of issue record i and every
\* collaborator succeeds
AllSucceed(i) ==
    /\ IsCallback
    /\ CarriesState(i)
    /\ i.h.StateKey = last.h.StateKey
    /\ last.env.exchange = "ok"
    /\ last.env.userinfo \in OkReplies
    /\ last.env.acl \in {"-", "nil"}
    /\ last.env.wp \in {"-", "nil"}

\* what Cookie returns at time t for the first cookie the response sets
ReadsBack(t) ==
    Cookie(last.h,
           Request(last.r.b,
                   ReqCookie(last.w.setCookies[1].Name, last.w.setCookies[1].Value),
                   Path(<<Slash>>), EmptyString, "GET"),
           t)

ServiceSub == last.h.Service \o <<Underscore>> \o last.env.userinfo.sub

\* C8 as stated: when the state is valid for URL U and every collaborator
\* succeeds, the response sets a cookie that Cookie reads back, at any time
\* within 24 hours of the issue, as Service_Sub, and redirects to U.
C8_AsStated ==
    \A i \in issued :
        AllSucceed(i) =>
            /\ Len(last.w.setCookies) = 1
            /\ \A t \in Instants :
                   t >= now /\ t - now <= Day =>
                       ReadsBack(t) = [err |-> "nil", b |-> ServiceSub]
            /\ last.w.status = 307
            /\ last.w.location = ToURL(i.in)

\* CookieName is not configured, or is an HTTP token
TokenName(h) == \A k \in 1..Len(h.CookieName) : h.CookieName[k] \in TokenBytes

\* u names a scheme or a host
NamesSite(u) == HasScheme(u) \/ Host(u) # <<>>

\* a path element that clean form does not keep
Redundant == {<<>>, <<46>>, <<46, 46>>}

\* the elements es of a rooted path, reduced from the left: an empty or "."
\* element is struck, a ".." is struck together with the element before it,
\* if there is one
RECURSIVE Reduced(_)
Reduced(es) ==
    IF \A k \in 1..Len(es) : es[k] \notin Redundant THEN es
    ELSE LET k == CHOOSE k \in 1..Len(es) :
                      es[k] \in Redundant /\ \A j \in 1..(k - 1) : es[j] \notin Redundant
             keep == IF es[k] = <<46, 46>> /\ k > 1 THEN k - 2 ELSE k - 1
         IN  Reduced(SubSeq(es, 1, keep) \o SubSeq(es, k + 1, Len(es)))

\* the path reference u as a redirect from a request for path `from` sends
\* it: joined to the directory of `from` unless it begins with '/', its path
\* reduced, the trailing slash of the path and the query kept
CleanFrom(from, u) ==
    LET dir == IF from = <<>> THEN <<Slash>> ELSE SubSeq(from, 1, LastIndex(from, Slash))
        abs == IF HasPrefix(u, <<Slash>>) THEN u ELSE dir \o u
        p == Before(abs, 63)
        es == Reduced(Split(Tail(p), Slash))
    IN  <<Slash>> \o Join(es, Slash)
            \o (IF es # <<>> /\ HasSuffix(p, <<Slash>>) THEN <<Slash>> ELSE <<>>)
            \o From(abs, 63)

\* the Location for U: U itself when it names a scheme or a host, else U in
\* clean form; bytes above 127 percent-encoded
LocationFor(from, u) ==
    ToURL(HexEscapeNonASCII(IF NamesSite(u) THEN u ELSE CleanFrom(from, u)))

\* C8 amended: when the state is valid for URL U and every collaborator
\* succeeds, the response sets a session cookie if CookieName is not
\* configured or is an HTTP token, and none otherwise; Cookie reads that
\* cookie back as Service_Sub until 24 hours after the time of issue
\* truncated to whole seconds; and the response is a 307 whose Location is
\* U itself when U names a scheme or a host and otherwise, for a U that
\* parses as a URL, U made absolute against the directory of the callback's
\* path and put in clean form.
C8_SessionAndRedirect ==
    \A i \in issued :
        AllSucceed(i) =>
            /\ IF TokenName(last.h)
               THEN /\ Len(last.w.setCookies) = 1
                    /\ \A t \in Instants :
                           /\ t >= now /\ t - (now \div Second) * Second <= Day
                           /\ NoSpace(last.h.Domain)
                           => ReadsBack(t) = [err |-> "nil", b |-> ServiceSub]
               ELSE last.w.setCookies = <<>>
            /\ last.w.status = 307
            /\ NamesSite(i.in) \/ ~ParseFails(i.in) =>
                   last.w.location = LocationFor(last.r.path, i.in)

\* a callback to "/o/cb" that succeeds in the middle of a second, for the
\* relative URL "*" and a subject with a space in it: the session is set and
\* the redirect goes to "/o/*"
C8_Witness ==
    \E i \in issued :
        /\ AllSucceed(i)
        /\ i.in = <<42>>
        /\ last.w.location = ToURL(<<Slash, 111, Slash, 42>>)
        /\ now > (now \div Second) * Second
        /\ Len(last.env.userinfo.sub) > 1
        /\ Len(last.w.setCookies) = 1

====
